---- MODULE Spec2Model ----
(***************************************************************************)
(* Model of the MOS (6502 family) architecture description for gdbstub:    *)
(* the register file MosRegs, its GDB wire codec (gdb_serialize and        *)
(* gdb_deserialize), the raw register id lookup MosRegId::from_raw_id and  *)
(* the register entries of the target description XML.                     *)
(*                                                                         *)
(* Rust indices are 0-based; a byte slice is a TLA+ sequence, so byte i of *)
(* the source is element i+1 of the sequence.  rc is kept as a function    *)
(* on 0..31 so that its indices are those of the source.                   *)
(***************************************************************************)
EXTENDS Integers, Sequences, FiniteSets

VARIABLES
    regs,             \* the caller's MosRegs value
    overflow_checks,  \* build mode: TRUE = integer overflow panics, FALSE = it wraps
    op,               \* the last operation called
    fresh,            \* TRUE when the last call decoded into MosRegs::default()
    arg,              \* the argument of the last mutating call (bytes, or <<i, v>>, or <<id>>)
    result,           \* result of the last mutating call: "none", "Ok", "Err" or "panic"
    out,              \* the bytes handed to write_byte by the last gdb_serialize
    hist,             \* the files the last call started from: <<f, g>> when it decoded
                      \* gdb_serialize(f) into g, <<f>> when it wrote to rc of f, else <<>>
    lookup,           \* the value returned by the last from_raw_id
    xml,              \* the register entries returned by the last target_description_xml
    writes            \* direct writes to rc since the last successful decode

vars == <<regs, overflow_checks, op, fresh, arg, result, out, hist, lookup, xml, writes>>

----------------------------------------------------------------------------
\* Bounds of the model.

\* Input byte patterns 0..MaxPattern are used to fill decode inputs.
MaxPattern == 1
\* Decode inputs carry up to MaxExtra bytes after the 42nd.
MaxExtra == 1
\* At most MaxWrites direct writes to rc between two successful decodes.
MaxWrites == 1
\* from_raw_id is called with every id in 0..MaxRawId (and with 1000).
MaxRawId == 60

----------------------------------------------------------------------------
\* 8-bit and 16-bit machine arithmetic.

U8(n) == n % 256

U16(n) == n % 65536

RECURSIVE BitAnd(_, _)
BitAnd(m, n) ==
    IF m = 0 \/ n = 0 THEN 0
    ELSE (m % 2) * (n % 2) + 2 * BitAnd(m \div 2, n \div 2)

RECURSIVE BitOr(_, _)
BitOr(m, n) ==
    IF m = 0 THEN n
    ELSE IF n = 0 THEN m
    ELSE ((m % 2) + (n % 2) + 1) \div 2 + 2 * BitOr(m \div 2, n \div 2)

Shr(n, k) == n \div (2 ^ k)

----------------------------------------------------------------------------
\* MosRegs

RcIndex == 0 .. 31

MosRegs(pc, a, x, y, s, flags, rc) ==
    [pc |-> pc, a |-> a, x |-> x, y |-> y, s |-> s, flags |-> flags, rc |-> rc]

\* #[derive(Default)]: every field zero.
Default == MosRegs(0, 0, 0, 0, 0, 0, [i \in RcIndex |-> 0])

Some(b) == [tag |-> "Some", val |-> b]

None == [tag |-> "None"]

\* Faulty variant of FlagBit: the shift without the mask.
FlagBitUnmasked(flags, k) == U8(Shr(flags, k))

\* (self.flags >> k) & 1
FlagBit(flags, k) == BitAnd(Shr(flags, k), 1)

\* Faulty variant of RcBytes: rc written from its last element to its first.
RcBytesReversed(self) == [i \in 1 .. 32 |-> Some(self.rc[32 - i])]

\* self.rc.iter().for_each(|v| write_byte(Some(*v)))
RcBytes(self) == [i \in 1 .. 32 |-> Some(self.rc[i - 1])]

\* gdb_serialize: the sequence of values handed to write_byte, in call order.
gdb_serialize(self) ==
    <<Some(self.pc % 256), Some(self.pc \div 256),
      Some(self.a), Some(self.x), Some(self.y), Some(self.s),
      Some(FlagBit(self.flags, 0)),
      Some(FlagBit(self.flags, 1)),
      Some(FlagBit(self.flags, 6)),
      Some(FlagBit(self.flags, 7))>>
    \o RcBytes(self)

\* Whether one of the products or sums of gdb_deserialize exceeds its type.
ArithOverflow(bytes) ==
    LET b(i) == bytes[i + 1] IN
    \/ b(0) + b(1) * 256 > 65535
    \/ b(7) * 2 > 255
    \/ b(8) * 64 > 255
    \/ b(9) * 128 > 255
    \/ U8(b(8) * 64) + U8(b(9) * 128) > 255

\* Faulty variant of MaskFlags: the reserved bits are cleared with the defined ones.
MaskFlagsClearAll(flags) == BitAnd(flags, 0)

\* self.flags &= 0b00111100
MaskFlags(flags) == BitAnd(flags, 60)

\* Faulty variant of OrFlags: the weights of bytes[8] and bytes[9] exchanged.
OrFlagsSwapped(flags, bytes) ==
    LET b(i) == bytes[i + 1] IN
    BitOr(flags,
          BitOr(BitOr(b(6), U8(b(7) * 2)),
                U8(U8(b(8) * 128) + U8(b(9) * 64))))

\* self.flags |= bytes[6] | bytes[7] * 2 | bytes[8] * 64 + bytes[9] * 128
\* (* binds tighter than +, + tighter than |; u8 arithmetic, wrapping here).
OrFlags(flags, bytes) ==
    LET b(i) == bytes[i + 1] IN
    BitOr(flags,
          BitOr(BitOr(b(6), U8(b(7) * 2)),
                U8(U8(b(8) * 64) + U8(b(9) * 128))))

\* gdb_deserialize, statement by statement.  Indexing bytes past its end
\* panics, as does an overflowing product or sum when overflow checks are
\* compiled in; the assignments made before the panic stay in self.
\* The function has no path that returns Err.
\*
\* After(j, k) is self once the first j assignments (pc, a, x, y, s,
\* flags &= .., flags |= ..) and the first k assignments to rc are done.
gdb_deserialize(self, bytes, checks) ==
    LET n == Len(bytes)
        b(i) == bytes[i + 1]
        After(j, k) ==
            [pc    |-> IF j >= 1 THEN U16(b(0) + b(1) * 256) ELSE self.pc,
             a     |-> IF j >= 2 THEN b(2) ELSE self.a,
             x     |-> IF j >= 3 THEN b(3) ELSE self.x,
             y     |-> IF j >= 4 THEN b(4) ELSE self.y,
             s     |-> IF j >= 5 THEN b(5) ELSE self.s,
             flags |-> IF j >= 7 THEN OrFlags(MaskFlags(self.flags), bytes)
                       ELSE IF j >= 6 THEN MaskFlags(self.flags)
                       ELSE self.flags,
             rc    |-> [i \in RcIndex |-> IF i < k THEN b(10 + i) ELSE self.rc[i]]]
        Panic(j, k) == [regs |-> After(j, k), result |-> "panic"]
    IN  IF n < 2 THEN Panic(0, 0)
        ELSE IF n < 3 THEN Panic(1, 0)
        ELSE IF n < 4 THEN Panic(2, 0)
        ELSE IF n < 5 THEN Panic(3, 0)
        ELSE IF n < 6 THEN Panic(4, 0)
        ELSE IF n < 8 THEN Panic(6, 0)
        ELSE IF checks /\ b(7) * 2 > 255 THEN Panic(6, 0)
        ELSE IF n < 9 THEN Panic(6, 0)
        ELSE IF checks /\ b(8) * 64 > 255 THEN Panic(6, 0)
        ELSE IF n < 10 THEN Panic(6, 0)
        ELSE IF checks /\ ArithOverflow(bytes) THEN Panic(6, 0)
        ELSE IF n < 42 THEN Panic(7, n - 10)
        ELSE [regs |-> After(7, 32), result |-> "Ok"]

----------------------------------------------------------------------------
\* MosRegId

RC(i) == [kind |-> "RC", idx |-> i]

RS(i) == [kind |-> "RS", idx |-> i]

PC == [kind |-> "PC"]

A == [kind |-> "A"]

X == [kind |-> "X"]

Y == [kind |-> "Y"]

S == [kind |-> "S"]

C == [kind |-> "C"]

Z == [kind |-> "Z"]

N == [kind |-> "N"]

V == [kind |-> "V"]

\* The match of from_raw_id: <<reg, size>>, or <<>> for the `_` arm.
RawIdMatch(id) ==
    CASE id = 0 -> <<PC, 2>>
      [] id = 1 -> <<A, 1>>
      [] id = 2 -> <<X, 1>>
      [] id = 3 -> <<Y, 1>>
      [] id = 4 -> <<S, 1>>
      [] id = 5 -> <<C, 1>>
      [] id = 6 -> <<Z, 1>>
      [] id = 7 -> <<N, 1>>
      [] id = 8 -> <<V, 1>>
      [] id \in 9 .. 40 -> <<RC(id - 9), 1>>
      [] id \in 41 .. 56 -> <<RS(id - 41), 2>>
      [] OTHER -> <<>>

\* Faulty variant of from_raw_id: every register reported one byte wide.
from_raw_id_one_byte(id) ==
    LET m == RawIdMatch(id) IN
    IF m = <<>> THEN None
    ELSE [tag |-> "Some", reg |-> m[1], size |-> Some(1)]

\* from_raw_id: None, or Some((reg, Some(size))).
from_raw_id(id) ==
    LET m == RawIdMatch(id) IN
    IF m = <<>> THEN None
    ELSE [tag |-> "Some", reg |-> m[1], size |-> Some(m[2])]

----------------------------------------------------------------------------
\* The target description: its <reg> elements, in document order, each with
\* its name, bitsize, offset and regnum attributes.

Reg(name, bitsize, offset, regnum) ==
    [name |-> name, bitsize |-> bitsize, offset |-> offset, regnum |-> regnum]

target_description_xml ==
    <<Reg("PC", 16, 0, 0), Reg("A", 8, 2, 1), Reg("X", 8, 3, 2),
      Reg("Y", 8, 4, 3), Reg("S", 8, 5, 4), Reg("C", 1, 6, 5),
      Reg("Z", 1, 7, 6), Reg("V", 1, 8, 7), Reg("N", 1, 9, 8),
      Reg("RC0", 8, 10, 9), Reg("RC1", 8, 11, 10), Reg("RC2", 8, 12, 11),
      Reg("RC3", 8, 13, 12), Reg("RC4", 8, 14, 13), Reg("RC5", 8, 15, 14),
      Reg("RC6", 8, 16, 15), Reg("RC7", 8, 17, 16), Reg("RC8", 8, 18, 17),
      Reg("RC9", 8, 19, 18), Reg("RC10", 8, 20, 19), Reg("RC11", 8, 21, 20),
      Reg("RC12", 8, 22, 21), Reg("RC13", 8, 23, 22), Reg("RC14", 8, 24, 23),
      Reg("RC15", 8, 25, 24), Reg("RC16", 8, 26, 25), Reg("RC17", 8, 27, 26),
      Reg("RC18", 8, 28, 27), Reg("RC19", 8, 29, 28), Reg("RC20", 8, 30, 29),
      Reg("RC21", 8, 31, 30), Reg("RC22", 8, 32, 31), Reg("RC23", 8, 33, 32),
      Reg("RC24", 8, 34, 33), Reg("RC25", 8, 35, 34), Reg("RC26", 8, 36, 35),
      Reg("RC27", 8, 37, 36), Reg("RC28", 8, 38, 37), Reg("RC29", 8, 39, 38),
      Reg("RC30", 8, 40, 39), Reg("RC31", 8, 41, 40), Reg("RS0", 16, 10, 41),
      Reg("RS1", 16, 12, 42), Reg("RS2", 16, 14, 43), Reg("RS3", 16, 16, 44),
      Reg("RS4", 16, 18, 45), Reg("RS5", 16, 20, 46), Reg("RS6", 16, 22, 47),
      Reg("RS7", 16, 24, 48), Reg("RS8", 16, 26, 49), Reg("RS9", 16, 28, 50),
      Reg("RS10", 16, 30, 51), Reg("RS11", 16, 32, 52), Reg("RS12", 16, 34, 53),
      Reg("RS13", 16, 36, 54), Reg("RS14", 16, 38, 55), Reg("RS15", 16, 40, 56)>>

----------------------------------------------------------------------------
\* The inputs the caller supplies.

\* Byte i of fill pattern p.
PatternByte(p, i) == IF p = 0 THEN 255 ELSE (13 * p + 7 * p * i) % 256

\* An input of n bytes: pattern p, with the four flag bytes (6..9) set to q.
Wire(p, q, n) ==
    [i \in 1 .. n |-> IF i - 1 \in 6 .. 9 THEN q[i - 6] ELSE PatternByte(p, i - 1)]

\* Values a flag byte takes besides 0 and 1.
BadFlagBytes == {2, 4, 128, 255}

\* The flag bytes of an input: every 0/1 combination, one byte out of range
\* with the others 0, and <<0, 0, 2, 1>> (64*2 + 128*1 = 256).
FlagQuads ==
    [1 .. 4 -> {0, 1}]
    \cup {[j \in 1 .. 4 |-> IF j = k THEN v ELSE 0] : k \in 1 .. 4, v \in BadFlagBytes}
    \cup {<<0, 0, 2, 1>>}

FullInputs ==
    {Wire(p, q, 42) : p \in 0 .. MaxPattern, q \in FlagQuads}
    \cup {Wire(p, <<1, 0, 1, 1>>, n) : p \in 0 .. MaxPattern, n \in 42 .. 42 + MaxExtra}

ShortInputs == {Wire(1, <<1, 0, 1, 1>>, n) : n \in 0 .. 41}

Inputs == FullInputs \cup ShortInputs

\* Well-formed inputs of exactly 42 bytes.
PlainInputs == {Wire(p, <<0, 1, 0, 1>>, 42) : p \in 0 .. MaxPattern}

\* The value of the n-th direct write to an rc element after a decode:
\* 165, 90, 15, ...
WriteVal(n) == (165 + 181 * n) % 256

\* Raw ids looked up.
RawIds == (0 .. MaxRawId) \cup {1000}

\* Register files the caller may hold at start or decode into.
Scenario == MosRegs(4660, 1, 2, 3, 4, 131, [i \in RcIndex |-> 0])

Dense == MosRegs(48879, 17, 34, 51, 68, 126, [i \in RcIndex |-> 200 - 3 * i])

Full == MosRegs(65535, 255, 255, 255, 255, 255, [i \in RcIndex |-> 255])

Files == {Default, Scenario, Dense, Full}

Bytes(o) == [i \in 1 .. Len(o) |-> o[i].val]

----------------------------------------------------------------------------
\* State machine.

Init ==
    /\ regs \in Files
    /\ overflow_checks \in BOOLEAN
    /\ op = "init"
    /\ fresh = FALSE
    /\ arg = <<>>
    /\ result = "none"
    /\ out = <<>>
    /\ hist = <<>>
    /\ lookup = None
    /\ xml = <<>>
    /\ writes = 0

\* A panic ends the call sequence.
Running == result # "panic"

\* The caller decodes the input bytes into its register file.
Deserialize(bytes) ==
    /\ Running
    /\ LET r == gdb_deserialize(regs, bytes, overflow_checks) IN
        /\ regs' = r.regs
        /\ result' = r.result
        /\ writes' = IF r.result = "Ok" THEN 0 ELSE writes
    /\ op' = "gdb_deserialize"
    /\ fresh' = (regs = Default)
    /\ arg' = bytes
    /\ out' = <<>>
    /\ hist' = <<>>
    /\ UNCHANGED <<overflow_checks, lookup, xml>>

\* The caller serializes its register file, collecting the bytes written.
Serialize ==
    /\ Running
    /\ out' = gdb_serialize(regs)
    /\ op' = "gdb_serialize"
    /\ hist' = <<>>
    /\ UNCHANGED <<regs, overflow_checks, fresh, arg, result, lookup, xml, writes>>

\* The caller decodes the bytes it has just collected from gdb_serialize
\* into a register file g (its own, or another one).
DeserializeSerialized(g) ==
    /\ Running
    /\ op = "gdb_serialize"
    /\ LET r == gdb_deserialize(g, Bytes(out), overflow_checks) IN
        /\ regs' = r.regs
        /\ result' = r.result
        /\ writes' = IF r.result = "Ok" THEN 0 ELSE writes
    /\ op' = "gdb_deserialize"
    /\ fresh' = (g = Default)
    /\ arg' = Bytes(out)
    /\ out' = <<>>
    /\ hist' = <<regs, g>>
    /\ UNCHANGED <<overflow_checks, lookup, xml>>

\* The caller assigns v to the public field rc[i] of its register file.
WriteRc(i, v) ==
    /\ Running
    /\ writes < MaxWrites
    /\ regs' = [regs EXCEPT !.rc[i] = v]
    /\ op' = "write_rc"
    /\ arg' = <<i, v>>
    /\ hist' = <<regs>>
    /\ writes' = writes + 1
    /\ result' = "none"
    /\ fresh' = FALSE
    /\ out' = <<>>
    /\ UNCHANGED <<overflow_checks, lookup, xml>>

\* The framework resolves a raw register id.
FromRawId(id) ==
    /\ Running
    /\ lookup' = from_raw_id(id)
    /\ op' = "from_raw_id"
    /\ arg' = <<id>>
    /\ hist' = <<>>
    /\ result' = "none"
    /\ fresh' = FALSE
    /\ out' = <<>>
    /\ UNCHANGED <<regs, overflow_checks, xml, writes>>

\* The framework fetches the target description.
TargetDescriptionXml ==
    /\ Running
    /\ xml' = target_description_xml
    /\ op' = "target_description_xml"
    /\ UNCHANGED <<regs, overflow_checks, fresh, arg, result, out, hist, lookup, writes>>

Next ==
    \/ \E bytes \in Inputs : Deserialize(bytes)
    \/ Serialize
    \/ \E g \in {Default, Dense, regs} : DeserializeSerialized(g)

Spec == Init /\ [][Next]_vars

\* The aux bank: direct writes to rc between decodes and serializations.
NextAlias ==
    \/ \E i \in RcIndex : WriteRc(i, WriteVal(writes))
    \/ \E bytes \in PlainInputs : Deserialize(bytes)
    \/ Serialize

SpecAlias == Init /\ [][NextAlias]_vars

\* Register identity and the target description.
NextDesc ==
    \/ \E id \in RawIds : FromRawId(id)
    \/ TargetDescriptionXml
    \/ \E bytes \in PlainInputs : Deserialize(bytes)
    \/ Serialize

SpecDesc == Init /\ [][NextDesc]_vars

----------------------------------------------------------------------------
\* Properties.

Reserved(flags) == BitAnd(flags, 60)

Defined(flags) == BitAnd(flags, 195)

Decoded == op = "gdb_deserialize"

\* C1: gdb_deserialize called with fewer than 42 bytes returns Err: it
\* neither returns Ok nor panics.
C1_ShortInputReturnsErr ==
    (Decoded /\ Len(arg) < 42) => result = "Err"

\* C2: a gdb_deserialize call with fewer than 42 bytes leaves every field of
\* the register file as it was before the call.
C2_ShortInputLeavesFileUnmodified ==
    [][(op' = "gdb_deserialize" /\ hist' = <<>> /\ Len(arg') < 42) => regs' = regs]_vars

\* C3: from_raw_id returns the entry of the documented table for every raw
\* id: 7 is the overflow flag V and 8 the negative flag N, as in the wire
\* layout and the target description.
C3_Table(id) ==
    LET Ret(reg, size) == [tag |-> "Some", reg |-> reg, size |-> Some(size)]
    IN  CASE id = 0 -> Ret(PC, 2)
          [] id = 1 -> Ret(A, 1)
          [] id = 2 -> Ret(X, 1)
          [] id = 3 -> Ret(Y, 1)
          [] id = 4 -> Ret(S, 1)
          [] id = 5 -> Ret(C, 1)
          [] id = 6 -> Ret(Z, 1)
          [] id = 7 -> Ret(V, 1)
          [] id = 8 -> Ret(N, 1)
          [] id \in 9 .. 40 -> Ret(RC(id - 9), 1)
          [] id \in 41 .. 56 -> Ret(RS(id - 41), 2)
          [] OTHER -> None

C3_FromRawIdMatchesTable ==
    op = "from_raw_id" => lookup = C3_Table(arg[1])

\* C4: a gdb_deserialize call with at least 42 bytes, whatever their values,
\* leaves bits 2-5 of flags as they were in the receiver before the call.
C4_ReservedBitsPreserved ==
    [][(op' = "gdb_deserialize" /\ Len(arg') >= 42)
          => Reserved(regs'.flags)
               = Reserved(IF hist' = <<>> THEN regs.flags ELSE hist'[2].flags)]_vars

\* C5 as stated: decoding any 42 bytes into a default register file and
\* serializing it gives the 42 bytes back.
C5_WireRoundTripAnyBytes ==
    (op = "gdb_serialize" /\ result = "Ok" /\ fresh /\ Len(arg) = 42)
        => out = [i \in 1 .. 42 |-> Some(arg[i])]

\* C5 as amended: decoding 42 bytes whose four flag bytes (positions 6..9)
\* are each 0 or 1 into a default register file and serializing it gives the
\* 42 bytes back.
C5_WireRoundTrip ==
    (op = "gdb_serialize" /\ result = "Ok" /\ fresh /\ Len(arg) = 42
        /\ \A i \in 7 .. 10 : arg[i] \in {0, 1})
        => out = [i \in 1 .. 42 |-> Some(arg[i])]

\* C5 witness: pattern 1 with flag bytes 1, 0, 0, 1 was decoded into a
\* default file and serialized.
C5_Witness ==
    /\ op = "gdb_serialize" /\ result = "Ok" /\ fresh /\ Len(arg) = 42
    /\ hist = <<>>
    /\ arg[1] = 13 /\ arg[2] = 20
    /\ <<arg[7], arg[8], arg[9], arg[10]>> = <<1, 0, 0, 1>>
    /\ out[2] = Some(20) /\ out[10] = Some(1)

\* C6: gdb_serialize writes exactly 42 bytes, all present: pc low, pc high,
\* a, x, y, s, flag bits 0, 1, 6, 7 as four bytes that are 0 or 1, then
\* rc[0..31]; bits 2-5 of flags do not change the output, and the call
\* leaves the register file as it was.
C6_Expected(self) ==
    [i \in 1 .. 42 |->
        Some(CASE i = 1 -> self.pc % 256
               [] i = 2 -> self.pc \div 256
               [] i = 3 -> self.a
               [] i = 4 -> self.x
               [] i = 5 -> self.y
               [] i = 6 -> self.s
               [] i = 7 -> self.flags % 2
               [] i = 8 -> (self.flags \div 2) % 2
               [] i = 9 -> (self.flags \div 64) % 2
               [] i = 10 -> (self.flags \div 128) % 2
               [] OTHER -> self.rc[i - 11])]

C6_Layout ==
    op = "gdb_serialize" =>
        /\ Len(out) = 42
        /\ out = C6_Expected(regs)
        /\ \A i \in 1 .. 42 : out[i].tag = "Some" /\ out[i].val \in 0 .. 255
        /\ \A i \in 7 .. 10 : out[i].val \in {0, 1}
        /\ \A r \in 0 .. 15 :
               out = gdb_serialize([regs EXCEPT !.flags = Defined(regs.flags) + 4 * r])
        /\ regs = Scenario =>
               Bytes(out) = <<52, 18, 1, 2, 3, 4, 1, 1, 0, 1>> \o [i \in 1 .. 32 |-> 0]

\* C6: the layout above holds after every gdb_serialize call, and the call
\* does not modify the register file.
C6_SerializeLayout ==
    [](C6_Layout) /\ [][op' = "gdb_serialize" => regs' = regs]_vars

\* C6 witness: the file PC=0x1234, A=1, X=2, Y=3, S=4, flags=0b10000011 was
\* serialized.
C6_Witness ==
    op = "gdb_serialize" /\ regs = Scenario /\ out[1] = Some(52) /\ out[10] = Some(1)

\* C7: a gdb_deserialize call with at least 42 bytes returns Ok, and none of
\* its products and sums exceeds its type.
C7_FullInputNeverFails ==
    (Decoded /\ Len(arg) >= 42) => (result = "Ok" /\ ~ArithOverflow(arg))

\* C8: decoding gdb_serialize(f) into g returns Ok and gives f's pc, a, x, y,
\* s, rc and flag bits 0, 1, 6, 7, with flag bits 2-5 of g; so the result
\* serializes as f does, and equals f when g = f has bits 2-5 clear.
C8_RegisterRoundTrip ==
    (Decoded /\ Len(hist) = 2) =>
        LET f == hist[1]
            g == hist[2]
        IN  /\ result = "Ok"
            /\ arg = Bytes(gdb_serialize(f))
            /\ regs.pc = f.pc /\ regs.a = f.a /\ regs.x = f.x
            /\ regs.y = f.y /\ regs.s = f.s /\ regs.rc = f.rc
            /\ Defined(regs.flags) = Defined(f.flags)
            /\ Reserved(regs.flags) = Reserved(g.flags)
            /\ gdb_serialize(regs) = gdb_serialize(f)
            /\ (g = f /\ Reserved(f.flags) = 0) => regs = f

\* C8 witness: gdb_serialize(f) was decoded into a g that differs from f in
\* pc, rc, defined and reserved flag bits.
C8_Witness ==
    /\ Decoded /\ Len(hist) = 2 /\ result = "Ok"
    /\ hist[1].pc # hist[2].pc
    /\ hist[1].rc # hist[2].rc
    /\ Defined(hist[1].flags) # Defined(hist[2].flags)
    /\ Reserved(hist[1].flags) # Reserved(hist[2].flags)
    /\ regs.pc = hist[1].pc

\* The name the target description gives a register.
Decimal ==
    <<"0", "1", "2", "3", "4", "5", "6", "7", "8", "9", "10", "11", "12", "13",
      "14", "15", "16", "17", "18", "19", "20", "21", "22", "23", "24", "25",
      "26", "27", "28", "29", "30", "31">>

RegName(reg) ==
    CASE reg.kind = "RC" -> "RC" \o Decimal[reg.idx + 1]
      [] reg.kind = "RS" -> "RS" \o Decimal[reg.idx + 1]
      [] OTHER -> reg.kind

AllRegs ==
    {PC, A, X, Y, S, C, Z, V, N} \cup {RC(i) : i \in 0 .. 31} \cup {RS(k) : k \in 0 .. 15}

\* The value a register has in a register file.
RegValue(self, reg) ==
    CASE reg.kind = "PC" -> self.pc
      [] reg.kind = "A" -> self.a
      [] reg.kind = "X" -> self.x
      [] reg.kind = "Y" -> self.y
      [] reg.kind = "S" -> self.s
      [] reg.kind = "C" -> self.flags % 2
      [] reg.kind = "Z" -> (self.flags \div 2) % 2
      [] reg.kind = "V" -> (self.flags \div 64) % 2
      [] reg.kind = "N" -> (self.flags \div 128) % 2
      [] reg.kind = "RC" -> self.rc[reg.idx]
      [] reg.kind = "RS" -> self.rc[2 * reg.idx] + 256 * self.rc[2 * reg.idx + 1]

\* The offset the layout of gdb_serialize gives a register.
LayoutOffset(reg) ==
    CASE reg.kind = "PC" -> 0
      [] reg.kind = "A" -> 2
      [] reg.kind = "X" -> 3
      [] reg.kind = "Y" -> 4
      [] reg.kind = "S" -> 5
      [] reg.kind = "C" -> 6
      [] reg.kind = "Z" -> 7
      [] reg.kind = "V" -> 8
      [] reg.kind = "N" -> 9
      [] reg.kind = "RC" -> 10 + reg.idx
      [] reg.kind = "RS" -> 10 + 2 * reg.idx

\* The little-endian value of the width bytes at offset in written bytes.
WireRead(o, offset, width) ==
    IF width = 1 THEN o[offset + 1].val
    ELSE o[offset + 1].val + 256 * o[offset + 2].val

EntryWidth(e) == (e.bitsize + 7) \div 8

\* C9: the target description has one reg entry per regnum 0..56; each
\* entry's offset is where gdb_serialize writes the register it names, its
\* bitsize in whole bytes is the size from_raw_id returns for its regnum, and
\* offset + width stays within the 42 bytes.
C9_DescriptionMatchesCodec ==
    op = "target_description_xml" =>
        /\ Len(xml) = 57
        /\ {xml[j].regnum : j \in 1 .. Len(xml)} = 0 .. 56
        /\ {xml[j].name : j \in 1 .. Len(xml)} = {RegName(r) : r \in AllRegs}
        /\ \A j \in 1 .. Len(xml) :
               LET e == xml[j]
                   w == EntryWidth(e)
               IN  /\ from_raw_id(e.regnum).tag = "Some"
                   /\ from_raw_id(e.regnum).size = Some(w)
                   /\ e.offset + w <= Len(gdb_serialize(regs))
                   /\ Len(gdb_serialize(regs)) = 42
                   /\ \A r \in AllRegs :
                          e.name = RegName(r) =>
                              /\ e.offset = LayoutOffset(r)
                              /\ WireRead(gdb_serialize(regs), e.offset, w)
                                     = RegValue(regs, r)

\* C9 witness: the description was fetched while the register file held
\* the decoded pattern 1.
C9_Witness ==
    /\ op = "target_description_xml"
    /\ regs.rc[31] = 44 /\ regs.rc[0] = 83 /\ regs.flags = 130
    /\ xml[57].name = "RS15" /\ xml[57].offset = 40

\* The 16-bit aux-pair register k (regnum 41 + k), read from the serialized
\* register file at the offset the target description gives it.
PairOffset ==
    [k \in 0 .. 15 |->
        (CHOOSE e \in {target_description_xml[j] : j \in 1 .. Len(target_description_xml)} :
            e.regnum = 41 + k).offset]

RSRead(o, k) == WireRead(o, PairOffset[k], 2)

RSView(self, k) == RSRead(gdb_serialize(self), k)

\* C10: rc always has 32 elements; aux-pair register k always reads as
\* rc[2k] | rc[2k+1] << 8; and a write of v to rc[i] makes the low (i even)
\* or high (i odd) byte of pair i/2 equal v, leaving its other byte and
\* every other pair as they were.
C10_AuxAliasing ==
    LET now == gdb_serialize(regs) IN
    /\ DOMAIN regs.rc = RcIndex
    /\ \A k \in 0 .. 15 : RSRead(now, k) = regs.rc[2 * k] + 256 * regs.rc[2 * k + 1]
    /\ op = "write_rc" =>
           LET was == gdb_serialize(hist[1])
               i == arg[1]
               v == arg[2]
               k == i \div 2
           IN  /\ i % 2 = 0 => /\ RSRead(now, k) % 256 = v
                               /\ RSRead(now, k) \div 256 = RSRead(was, k) \div 256
               /\ i % 2 = 1 => /\ RSRead(now, k) \div 256 = v
                               /\ RSRead(now, k) % 256 = RSRead(was, k) % 256
               /\ \A j \in 0 .. 15 : j # k => RSRead(now, j) = RSRead(was, j)

\* C10 witness: 165 was written to rc[3] of a file holding decoded pattern 1.
C10_Witness ==
    /\ op = "write_rc" /\ arg = <<3, 165>>
    /\ hist[1].rc[2] = 97 /\ hist[1].rc[3] = 104
    /\ RSView(regs, 1) = 97 + 256 * 165

====
